---- MODULE Spec2Model ----
(***************************************************************************)
(* Model of auth_logic/validation/user_val.py: LoginVal (auth_user) and    *)
(* RegisterVal (validate, save_user) over the UserDB store and the bcrypt  *)
(* password context.                                                       *)
(*                                                                         *)
(* Strings whose characters or length the code inspects (email, pass1,     *)
(* pass2, pwd) are sequences of one-character strings.  Strings the code   *)
(* only tests for truthiness and equality (name, username, phone, uid) are *)
(* TLA+ strings, "" being the empty string.                                *)
(***************************************************************************)
EXTENDS Integers, Sequences, FiniteSets, TLC

VARIABLES
    store,      \* UserDB collection: records in insertion order
    val,        \* the validator object of the current request (None when there is none)
    last,       \* what the last completed call gave its caller (None when nothing yet)
    registered, \* history: the save_user calls that returned status True
    addr,       \* SpecEmail: the string under test
    verdict,    \* SpecEmail: result of the last is_email_valid call
    procs,      \* SpecConc: per-caller position and locals in save_user
    seen,       \* SpecConc: per stored record, Len(store) at each lookup of its call
    calls       \* SpecConc: number of save_user calls started

vars == <<store, val, last, registered, addr, verdict, procs, seen, calls>>

----------------------------------------------------------------------------
\* Characters and the email pattern

\* ASCII code of the characters the model uses.
Ord(c) ==
    CASE c = "-" -> 45
      [] c = "." -> 46
      [] c = "7" -> 55
      [] c = ":" -> 58
      [] c = "@" -> 64
      [] c = "Z" -> 90
      [] c = "_" -> 95
      [] c = "a" -> 97
      [] c = "b" -> 98
      [] c = "c" -> 99
      [] c = "o" -> 111
      [] c = "|" -> 124

\* A regex range lo-hi inside a character class.
InRange(c, lo, hi) == Ord(lo) <= Ord(c) /\ Ord(c) <= Ord(hi)

IsUpper(c) == InRange(c, "Z", "Z")
IsLower(c) == InRange(c, "a", "o")
IsDigit(c) == InRange(c, "7", "7")

\* [A-Za-z0-9]
ClassAlnum(c) == IsUpper(c) \/ IsLower(c) \/ IsDigit(c)

\* [.-_] : inside a class, .-_ is the range from "." to "_"
ClassSep(c) == InRange(c, ".", "_")

\* [A-Za-z0-9-]
ClassDomain(c) == IsUpper(c) \/ IsLower(c) \/ IsDigit(c) \/ c = "-"

\* [A-Z|a-z]
ClassTld(c) == IsUpper(c) \/ c = "|" \/ IsLower(c)

Suffix(s, k) == SubSeq(s, k, Len(s))

AllAlnum(s) == \A i \in 1..Len(s) : ClassAlnum(s[i])
AllDomain(s) == \A i \in 1..Len(s) : ClassDomain(s[i])
AllTld(s) == \A i \in 1..Len(s) : ClassTld(s[i])

\* ([A-Za-z0-9]+[.-_])*[A-Za-z0-9]+
RECURSIVE MatchLocal(_)
MatchLocal(s) ==
    \/ Len(s) >= 1 /\ AllAlnum(s)
    \/ \E k \in 2..Len(s) :
         /\ AllAlnum(SubSeq(s, 1, k - 1))
         /\ ClassSep(s[k])
         /\ MatchLocal(Suffix(s, k + 1))

\* (\.[A-Z|a-z]{2,})+
RECURSIVE MatchTlds(_)
MatchTlds(s) ==
    /\ Len(s) >= 3
    /\ s[1] = "."
    /\ \E k \in 3..Len(s) :
         /\ AllTld(SubSeq(s, 2, k))
         /\ (k = Len(s) \/ MatchTlds(Suffix(s, k + 1)))

\* [A-Za-z0-9-]+(\.[A-Z|a-z]{2,})+
MatchHost(s) ==
    \E k \in 1..Len(s) :
      /\ AllDomain(SubSeq(s, 1, k))
      /\ MatchTlds(Suffix(s, k + 1))

\* re.fullmatch(email_regex, s)
FullMatchEmail(s) ==
    \E k \in 1..Len(s) :
      /\ s[k] = "@"
      /\ MatchLocal(SubSeq(s, 1, k - 1))
      /\ MatchHost(Suffix(s, k + 1))

\* LoginVal.is_email_valid
Login_is_email_valid(e) == FullMatchEmail(e)

\* RegisterVal.is_email_valid
is_email_valid(e) == FullMatchEmail(e)

----------------------------------------------------------------------------
\* Input pools

MinPwdLen == 8
MaxPwdLen == 16

RECURSIVE Pw(_, _)
Pw(c, n) == IF n = 0 THEN <<>> ELSE Append(Pw(c, n - 1), c)

EmailA == <<"a", "@", "b", ".", "c", "o">>
EmailB == <<"c", "@", "b", ".", "c", "o">>
EmailBad == <<"a", ".", "b">>

Names == {"", "A"}
Usernames == {"", "alice", "bob"}
Emails == {<<>>, EmailA, EmailB, EmailBad}
Phones == {"", "123"}
Uids == {"id1", "id2"}
Passwords ==
    { <<>>, Pw("p", MinPwdLen - 1), Pw("p", MinPwdLen),
      Pw("q", MaxPwdLen), Pw("p", MaxPwdLen + 1) }
Confirmations == {<<>>, Pw("p", MinPwdLen), Pw("q", MaxPwdLen)}
Salts == {"s1", "s2"}

\* entity.user.User as RegisterVal reads it.  Two families of candidates:
\* every combination of present and absent fields, and every combination of
\* identity (username, email, uid) and passwords with name and phone present.
PresenceUsers ==
    [name : Names, username : {"", "alice"}, email : {<<>>, EmailA},
     phone : Phones, pass1 : {<<>>, Pw("p", MinPwdLen)},
     pass2 : {<<>>, Pw("p", MinPwdLen)}, uid : {"id1"}]
IdentityUsers ==
    [name : {"A"}, username : Usernames, email : Emails, phone : {"123"},
     pass1 : Passwords, pass2 : Confirmations, uid : Uids]
Users == PresenceUsers \cup IdentityUsers

None == [none |-> TRUE]

StrTruthy(s) == s # ""
SeqTruthy(s) == Len(s) > 0
Truthy(r) == r # None

----------------------------------------------------------------------------
\* UserDB (data_access.user_data) and the bcrypt context

\* UserDB.fetch_user({field: value}): the first stored record whose field has
\* that value, None when there is none.
fetch_user(db, field, value) ==
    IF \E i \in 1..Len(db) : db[i][field] = value
    THEN db[CHOOSE i \in 1..Len(db) :
               /\ db[i][field] = value
               /\ \A j \in 1..(i - 1) : db[j][field] # value]
    ELSE None

\* UserDB.add_user(record): insert, no check of its own.
add_user(db, record) == Append(db, record)

\* bcrypt_ctx.hash(pwd) with the salt it drew: scheme tag, salt, digest.
bcrypt_hash(pwd, salt) == <<"$2b$", salt>> \o pwd

\* bcrypt_ctx.verify(plain, hashed): re-hash plain under hashed's salt.
bcrypt_verify(plain, hashed) ==
    /\ Len(hashed) >= 2
    /\ hashed[1] = "$2b$"
    /\ bcrypt_hash(plain, hashed[2]) = hashed

----------------------------------------------------------------------------
\* LoginVal

\* A faulty Login_validate: the pattern check is left out.
Login_validate_no_pattern(em, pwd) ==
    (IF ~SeqTruthy(em) THEN <<"Email is required">> ELSE <<>>)
    \o (IF ~SeqTruthy(pwd) THEN <<"Password is required">> ELSE <<>>)

\* LoginVal.validate
Login_validate(em, pwd) ==
    (IF ~SeqTruthy(em) THEN <<"Email is required">> ELSE <<>>)
    \o (IF ~SeqTruthy(pwd) THEN <<"Password is required">> ELSE <<>>)
    \o (IF ~Login_is_email_valid(em) THEN <<"Invalid Email">> ELSE <<>>)

\* LoginVal.verify_pwd
verify_pwd(plain_pwd, hashed_pwd) == bcrypt_verify(plain_pwd, hashed_pwd)

\* LoginVal.validate_login
validate_login(errors) ==
    IF Len(errors) > 0
    THEN [status |-> FALSE, msg |-> errors]
    ELSE [status |-> TRUE]

----------------------------------------------------------------------------
\* RegisterVal

\* A faulty is_pwd_valid: the lower bound made strict.
is_pwd_valid_strict(user) ==
    MinPwdLen < Len(user.pass1) /\ Len(user.pass1) <= MaxPwdLen

\* RegisterVal.is_pwd_valid
is_pwd_valid(user) == MinPwdLen <= Len(user.pass1) /\ Len(user.pass1) <= MaxPwdLen

\* RegisterVal.is_pwd_match
is_pwd_match(user) == user.pass1 = user.pass2

\* The three filters is_user_exists passes to fetch_user, in the order issued.
Lookups(user) ==
    << <<"username", user.username>>, <<"email", user.email>>, <<"UUID", user.uid>> >>

\* The list any() receives: all three fetches are made before any() runs.
FetchAll(db, user) ==
    [i \in 1..3 |-> fetch_user(db, Lookups(user)[i][1], Lookups(user)[i][2])]

\* A faulty is_user_exists: the UUID lookup's result is ignored.
is_user_exists_no_uuid(hits) == ~(Truthy(hits[1]) \/ Truthy(hits[2]))

\* A faulty is_user_exists: only the username lookup's result counts.
is_user_exists_first(hits) == ~Truthy(hits[1])

\* A faulty is_user_exists: the email lookup's result is ignored.
is_user_exists_no_email(hits) == ~(Truthy(hits[1]) \/ Truthy(hits[3]))

\* RegisterVal.is_user_exists, given the three fetched values.
is_user_exists(hits) == ~(\E i \in 1..Len(hits) : Truthy(hits[i]))

\* RegisterVal.validate, given the three fetched values.
validate(user, hits) ==
    (IF ~StrTruthy(user.name) THEN <<"Name is required">> ELSE <<>>)
    \o (IF ~StrTruthy(user.username) THEN <<"Username is required">> ELSE <<>>)
    \o (IF ~SeqTruthy(user.email) THEN <<"Email is required">> ELSE <<>>)
    \o (IF ~StrTruthy(user.phone) THEN <<"Phone Number is required">> ELSE <<>>)
    \o (IF ~SeqTruthy(user.pass1) THEN <<"Password is required">> ELSE <<>>)
    \o (IF ~SeqTruthy(user.pass2) THEN <<"Confirm Password is required">> ELSE <<>>)
    \o (IF ~is_email_valid(user.email) THEN <<"Invalid Email">> ELSE <<>>)
    \o (IF ~is_pwd_valid(user)
        THEN <<"Password must be 8-16 characters long">> ELSE <<>>)
    \o (IF ~is_pwd_match(user) THEN <<"Passwords do not match">> ELSE <<>>)
    \o (IF ~is_user_exists(hits) THEN <<"User already exists">> ELSE <<>>)

\* RegisterVal.hash_pwd
hash_pwd(pwd, salt) == bcrypt_hash(pwd, salt)

\* A faulty validate_reg: a single error is let through.
validate_reg_off_by_one(errors) ==
    IF Len(errors) > 1
    THEN [status |-> FALSE, msg |-> errors]
    ELSE [status |-> TRUE]

\* A faulty validate_reg: the test of errors is inverted.
validate_reg_inverted(errors) ==
    IF Len(errors) = 0
    THEN [status |-> FALSE, msg |-> errors]
    ELSE [status |-> TRUE]

\* RegisterVal.validate_reg
validate_reg(errors) ==
    IF Len(errors) > 0
    THEN [status |-> FALSE, msg |-> errors]
    ELSE [status |-> TRUE]

\* A faulty user_data: pass1 is stored as it came.
user_data_plain(user, hashed_pwd) ==
    [Name |-> user.name, username |-> user.username, password |-> user.pass1,
     email |-> user.email, ph_no |-> user.phone, UUID |-> user.uid]

\* The record save_user builds for add_user.
user_data(user, hashed_pwd) ==
    [Name |-> user.name, username |-> user.username, password |-> hashed_pwd,
     email |-> user.email, ph_no |-> user.phone, UUID |-> user.uid]

\* save_user's handler: except Exception as e: raise e
save_user_except(e) == e

\* auth_user's handler: except Exception as e: raise AppException(e, sys) from e
auth_user_except(e) == "AppException"

----------------------------------------------------------------------------
\* Calls executed one at a time: a request constructs a validator, calls it,
\* and ends.

\* A collaborator that fails raises on its first use in the call.
SaveFaults == {"none", "fetch_user", "hash", "add_user"}
AuthFaults == {"none", "fetch_user", "verify"}

Returned(op, arg, ret, fetches, adds, first) ==
    [op |-> op, arg |-> arg, kind |-> "return", exc |-> "none", ret |-> ret,
     fetches |-> fetches, adds |-> adds, before |-> store, first |-> first]

Raised(op, arg, exc, fetches, adds, first) ==
    [op |-> op, arg |-> arg, kind |-> "raise", exc |-> exc, ret |-> None,
     fetches |-> fetches, adds |-> adds, before |-> store, first |-> first]

AuthFalse == [returned |-> "False"]
AuthUser(user) == [returned |-> "user", user |-> user]

SeqFrame == UNCHANGED <<addr, verdict, procs, seen, calls>>

\* RegisterVal.__init__
NewRegisterVal(user) ==
    /\ val = None
    /\ last = None
    /\ val' = [cls |-> "RegisterVal", user |-> user, uuid |-> user.uid]
    /\ UNCHANGED <<store, last, registered>>
    /\ SeqFrame

\* LoginVal.__init__
NewLoginVal(em, pwd) ==
    /\ val = None
    /\ last = None
    /\ val' = [cls |-> "LoginVal", email |-> em, pwd |-> pwd]
    /\ UNCHANGED <<store, last, registered>>
    /\ SeqFrame

\* RegisterVal.save_user, run to completion.
save_user(salt, fault) ==
    /\ val # None
    /\ val.cls = "RegisterVal"
    /\ last = None
    /\ LET user == val.user
           look == Lookups(user)
           errors == validate(user, FetchAll(store, user))
           record == user_data(user, hash_pwd(user.pass1, salt))
       IN
       IF fault = "fetch_user"
       THEN /\ last' = Raised("save_user", user, save_user_except("StoreError"),
                              <<look[1]>>, <<>>, <<>>)
            /\ UNCHANGED <<store, registered>>
       ELSE IF validate_reg(errors).status
       THEN IF fault = "hash"
            THEN /\ last' = Raised("save_user", user, save_user_except("HashError"),
                                   look, <<>>, errors)
                 /\ UNCHANGED <<store, registered>>
            ELSE IF fault = "add_user"
            THEN /\ last' = Raised("save_user", user, save_user_except("StoreError"),
                                   look, <<record>>, errors)
                 /\ UNCHANGED <<store, registered>>
            ELSE /\ store' = add_user(store, record)
                 /\ last' = Returned("save_user", user,
                                     [status |-> TRUE,
                                      msg |-> "User registered successfully"],
                                     look, <<record>>, errors)
                 /\ registered' = registered \cup
                        {[email |-> user.email, pass1 |-> user.pass1, rec |-> record]}
       ELSE /\ last' = Returned("save_user", user,
                                [status |-> FALSE,
                                 msg |-> validate(user, FetchAll(store, user))],
                                look \o look, <<>>, errors)
            /\ UNCHANGED <<store, registered>>
    /\ UNCHANGED val
    /\ SeqFrame

\* LoginVal.auth_user, run to completion.
auth_user(fault) ==
    /\ val # None
    /\ val.cls = "LoginVal"
    /\ last = None
    /\ LET creds == [email |-> val.email, pwd |-> val.pwd]
           login_status == validate_login(Login_validate(val.email, val.pwd))
           filter == <<"email", val.email>>
           user == fetch_user(store, "email", val.email)
       IN
       IF ~login_status.status
       THEN last' = Returned("auth_user", creds, AuthFalse, <<>>, <<>>, <<>>)
       ELSE IF fault = "fetch_user"
       THEN last' = Raised("auth_user", creds, auth_user_except("StoreError"),
                           <<filter>>, <<>>, <<>>)
       ELSE IF ~Truthy(user)
       THEN last' = Returned("auth_user", creds, AuthFalse, <<filter>>, <<>>, <<>>)
       ELSE IF fault = "verify"
       THEN last' = Raised("auth_user", creds, auth_user_except("HashError"),
                           <<filter>>, <<>>, <<>>)
       ELSE IF ~verify_pwd(val.pwd, user.password)
       THEN last' = Returned("auth_user", creds, AuthFalse, <<filter>>, <<>>, <<>>)
       ELSE last' = Returned("auth_user", creds, AuthUser(user), <<filter>>, <<>>, <<>>)
    /\ UNCHANGED <<store, val, registered>>
    /\ SeqFrame

\* The request ends: the caller has the result, the validator is dropped.
Respond ==
    /\ last # None
    /\ val' = None
    /\ last' = None
    /\ UNCHANGED <<store, registered>>
    /\ SeqFrame

\* The two callers of the interleaved specification, and a caller at rest.
Procs == {1, 2}
IdleProc ==
    [pc |-> "idle", user |-> None, hits |-> <<>>, lens |-> <<>>,
     first |-> <<>>, ret |-> None]

Init ==
    /\ store = <<>>
    /\ val = None
    /\ last = None
    /\ registered = {}
    /\ addr = <<>>
    /\ verdict = None
    /\ procs = [p \in Procs |-> IdleProc]
    /\ seen = <<>>
    /\ calls = 0

Next ==
    \/ \E user \in Users : NewRegisterVal(user)
    \/ \E em \in Emails, pwd \in Passwords : NewLoginVal(em, pwd)
    \/ \E salt \in Salts, fault \in SaveFaults : save_user(salt, fault)
    \/ \E fault \in AuthFaults : auth_user(fault)
    \/ Respond

Spec == Init /\ [][Next]_vars

----------------------------------------------------------------------------
\* Properties of calls executed one at a time (Spec)

Range(s) == {s[i] : i \in 1..Len(s)}

Done(op) == last # None /\ last.op = op

\* Some stored record has the candidate's username, email or UUID.
Collides(user, db) ==
    \E i \in 1..Len(db) :
      \/ db[i].username = user.username
      \/ db[i].email = user.email
      \/ db[i].UUID = user.uid

\* At least one registration check fails for the candidate against the store.
CheckFails(user, db) ==
    \/ user.name = ""
    \/ user.username = ""
    \/ user.email = <<>>
    \/ user.phone = ""
    \/ user.pass1 = <<>>
    \/ user.pass2 = <<>>
    \/ ~FullMatchEmail(user.email)
    \/ Len(user.pass1) < 8
    \/ Len(user.pass1) > 16
    \/ user.pass1 # user.pass2
    \/ Collides(user, db)

\* C1: a save_user call for a candidate with at least one failing check leaves
\* the store as it was and calls add_user not once; the result it returns has
\* status False, and has "Passwords do not match" in msg when pass1 # pass2.
C1_FailedCheckNoInsert ==
    (Done("save_user") /\ CheckFails(last.arg, last.before)) =>
        /\ store = last.before
        /\ last.adds = <<>>
        /\ last.kind = "return" =>
             /\ last.ret.status = FALSE
             /\ last.arg.pass1 # last.arg.pass2 =>
                  "Passwords do not match" \in Range(last.ret.msg)

C1_Witness ==
    /\ Done("save_user")
    /\ last.kind = "return"
    /\ last.arg.pass1 # last.arg.pass2
    /\ last.arg.pass1 = Pw("p", 8)
    /\ ~Collides(last.arg, last.before)
    /\ Len(store) = 1
    /\ last.ret.status = FALSE

\* C2: a save_user call for a candidate whose username, email or UUID is that of
\* a stored record returns status False with "User already exists" in msg and
\* inserts nothing.
C2_DuplicateRejected ==
    (Done("save_user") /\ Collides(last.arg, last.before)) =>
        /\ store = last.before
        /\ last.adds = <<>>
        /\ last.kind = "return" =>
             /\ last.ret.status = FALSE
             /\ "User already exists" \in Range(last.ret.msg)

\* Only the UUID collides, everything else is valid and new.
C2_Witness ==
    /\ Done("save_user")
    /\ last.kind = "return"
    /\ Len(last.before) = 1
    /\ last.before[1].UUID = last.arg.uid
    /\ last.before[1].username # last.arg.username
    /\ last.before[1].email # last.arg.email
    /\ last.ret.status = FALSE
    /\ last.ret.msg = <<"User already exists">>

\* C3: no two records of the store share a username, an email or a UUID.
C3_StoreUnique ==
    \A i, j \in 1..Len(store) :
      i < j =>
        /\ store[i].username # store[j].username
        /\ store[i].email # store[j].email
        /\ store[i].UUID # store[j].UUID

C3_Witness ==
    /\ Len(store) = 2
    /\ Done("save_user")
    /\ last.kind = "return"
    /\ last.ret.status = TRUE

\* C4: every registration that returned status True stored hash(pass1), not
\* pass1; the record is in the store; a login with its email and pass1 that
\* returns, returns that record, and one with its email and another password
\* returns False.
C4_RegisterThenLogin ==
    \A r \in registered :
      /\ r.rec.password # r.pass1
      /\ \E salt \in Salts : r.rec.password = bcrypt_hash(r.pass1, salt)
      /\ r.rec.email = r.email
      /\ r.rec \in Range(store)
      /\ (Done("auth_user") /\ last.kind = "return" /\ last.arg.email = r.email) =>
           /\ last.arg.pwd = r.pass1 => last.ret = AuthUser(r.rec)
           /\ last.arg.pwd # r.pass1 => last.ret = AuthFalse

\* A login for the second of two registered users succeeds.
C4_Witness ==
    /\ Len(store) = 2
    /\ Done("auth_user")
    /\ last.kind = "return"
    /\ last.ret = AuthUser(store[2])
    /\ \E r \in registered : r.rec = store[2] /\ r.pass1 = last.arg.pwd

\* The ten messages of RegisterVal.validate, in the order of its checks.
RegMessages ==
    << "Name is required", "Username is required", "Email is required",
       "Phone Number is required", "Password is required",
       "Confirm Password is required", "Invalid Email",
       "Password must be 8-16 characters long", "Passwords do not match",
       "User already exists" >>

\* Whether the check message m reports fails for the candidate against the store.
CheckOf(m, user, db) ==
    CASE m = "Name is required" -> user.name = ""
      [] m = "Username is required" -> user.username = ""
      [] m = "Email is required" -> user.email = <<>>
      [] m = "Phone Number is required" -> user.phone = ""
      [] m = "Password is required" -> user.pass1 = <<>>
      [] m = "Confirm Password is required" -> user.pass2 = <<>>
      [] m = "Invalid Email" -> ~FullMatchEmail(user.email)
      [] m = "Password must be 8-16 characters long" ->
             Len(user.pass1) < 8 \/ Len(user.pass1) > 16
      [] m = "Passwords do not match" -> user.pass1 # user.pass2
      [] m = "User already exists" -> Collides(user, db)

ExpectedMessages(user, db) ==
    LET Fails(m) == CheckOf(m, user, db) IN SelectSeq(RegMessages, Fails)

\* C5: the list RegisterVal.validate returns is the subsequence of the ten
\* messages, in their fixed order, whose check fails (the length message exactly
\* when len(pass1) < 8 or > 16), and each validate call issues the username,
\* email and UUID lookups, in that order, whatever failed or hit before.
C5_ValidateCollectsAll ==
    (Done("save_user") /\ Len(last.fetches) >= 3) =>
        /\ last.first = ExpectedMessages(last.arg, last.before)
        /\ SubSeq(last.fetches, 1, 3) = Lookups(last.arg)
        /\ (last.kind = "return" /\ last.ret.status = FALSE) =>
             /\ last.ret.msg = ExpectedMessages(last.arg, last.before)
             /\ last.fetches = Lookups(last.arg) \o Lookups(last.arg)

\* Nine checks fail at once: every field absent and the UUID taken.
C5_Witness ==
    /\ Done("save_user")
    /\ last.kind = "return"
    /\ Len(last.before) = 1
    /\ last.ret.status = FALSE
    /\ Len(last.ret.msg) = 9
    /\ Len(last.fetches) = 6

\* C6: auth_user returns a user record only for a non-empty email and password,
\* an email matching the pattern, a stored record fetched by that email and a
\* password that verifies against the record's; it returns False otherwise;
\* with an empty email or password or a malformed email it returns False
\* without any fetch; it never calls add_user and leaves the store as it was.
C6_LoginSafety ==
    Done("auth_user") =>
        /\ store = last.before
        /\ last.adds = <<>>
        /\ (last.kind = "return" /\ last.ret # AuthFalse) =>
             /\ last.ret.returned = "user"
             /\ last.arg.email # <<>>
             /\ last.arg.pwd # <<>>
             /\ FullMatchEmail(last.arg.email)
             /\ last.fetches = << <<"email", last.arg.email>> >>
             /\ last.ret.user \in Range(store)
             /\ last.ret.user.email = last.arg.email
             /\ bcrypt_verify(last.arg.pwd, last.ret.user.password)
        /\ (last.arg.email = <<>> \/ last.arg.pwd = <<>>
              \/ ~FullMatchEmail(last.arg.email)) =>
             /\ last.kind = "return"
             /\ last.ret = AuthFalse
             /\ last.fetches = <<>>

\* A malformed, non-empty email with a password: False, and no fetch.
C6_Witness ==
    /\ Done("auth_user")
    /\ last.arg.email = EmailBad
    /\ last.arg.pwd # <<>>
    /\ Len(store) > 0
    /\ last.ret = AuthFalse
    /\ last.fetches = <<>>

\* C7: a failure of the store or of the hasher during auth_user or save_user
\* reaches the caller as AppException.
C7_FailuresAreAppException ==
    (last # None /\ last.kind = "raise") => last.exc = "AppException"

----------------------------------------------------------------------------
\* is_email_valid on its own (SpecEmail)

MaxLocalLen == 3
MaxDomainLen == 2

Strings(chars, n) == UNION {[1..k -> chars] : k \in 0..n}

LocalChars == {"a", ".", "-", "_", ":", "@"}
DomainChars == {"a", "-"}
TldPool ==
    { <<>>, <<".", "a">>, <<".", "a", "a">>, <<".", "a", "|">>,
      <<".", "Z", "a">>, <<".", "a", "7">>,
      <<".", "a", "a", ".", "a", "a">>, <<".", "a", "a", ".", "a">> }

\* local part, "@" or nothing, domain label, TLD labels
EmailInputs ==
    { l \o at \o d \o t :
        l \in Strings(LocalChars, MaxLocalLen), at \in {<<>>, <<"@">>},
        d \in Strings(DomainChars, MaxDomainLen), t \in TldPool }

InitEmail ==
    /\ store = <<>>
    /\ val = None
    /\ last = None
    /\ registered = {}
    /\ addr \in EmailInputs
    /\ verdict = None
    /\ procs = [p \in Procs |-> IdleProc]
    /\ seen = <<>>
    /\ calls = 0

\* LoginVal(addr, pwd).is_email_valid()
CheckLoginEmail ==
    /\ verdict' = [cls |-> "LoginVal", valid |-> Login_is_email_valid(addr)]
    /\ UNCHANGED <<store, val, last, registered, addr, procs, seen, calls>>

\* RegisterVal(user).is_email_valid() with user.email = addr
CheckRegisterEmail ==
    /\ verdict' = [cls |-> "RegisterVal", valid |-> is_email_valid(addr)]
    /\ UNCHANGED <<store, val, last, registered, addr, procs, seen, calls>>

NextEmail ==
    \/ CheckLoginEmail
    \/ CheckRegisterEmail

SpecEmail == InitEmail /\ [][NextEmail]_vars

Letters == {"a", "b", "c", "o", "Z"}
Digits == {"7"}
Separators == {".", "-", "_"}

Positions(s, c) == {i \in 1..Len(s) : s[i] = c}

\* Letters and digits, optionally separated by single dots, hyphens, underscores.
ClaimedLocal(s) ==
    /\ Len(s) >= 1
    /\ \A i \in 1..Len(s) : s[i] \in Letters \cup Digits \cup Separators
    /\ s[1] \notin Separators
    /\ s[Len(s)] \notin Separators
    /\ \A i \in 1..(Len(s) - 1) : ~(s[i] \in Separators /\ s[i + 1] \in Separators)

\* A domain label of letters, digits, hyphens, then TLD labels of 2+ letters.
ClaimedHost(s) ==
    LET dots == Positions(s, ".")
        ends == dots \cup {Len(s) + 1}
    IN
    /\ dots # {}
    /\ \A d \in dots :
         LET nxt == CHOOSE e \in ends : e > d /\ \A f \in ends : f > d => e <= f
         IN /\ nxt - d - 1 >= 2
            /\ \A i \in (d + 1)..(nxt - 1) : s[i] \in Letters
    /\ LET first == CHOOSE d \in dots : \A f \in dots : d <= f
       IN /\ first >= 2
          /\ \A i \in 1..(first - 1) : s[i] \in Letters \cup Digits \cup {"-"}

WellFormedEmail(s) ==
    /\ Cardinality(Positions(s, "@")) = 1
    /\ LET at == CHOOSE i \in 1..Len(s) : s[i] = "@"
       IN /\ ClaimedLocal(SubSeq(s, 1, at - 1))
          /\ ClaimedHost(Suffix(s, at + 1))

\* No "@", more than one "@", no TLD, or a character outside the allowed sets.
MalformedEmail(s) ==
    \/ Cardinality(Positions(s, "@")) # 1
    \/ \A i \in 1..Len(s) : s[i] = "@" => Positions(Suffix(s, i + 1), ".") = {}
    \/ \E i \in 1..Len(s) : s[i] \notin Letters \cup Digits \cup Separators \cup {"@"}

\* C8: is_email_valid is true of every well-formed localpart@domain.tld and
\* false of every string with no "@", several "@", no TLD or a character outside
\* letters, digits, dot, hyphen, underscore and "@".
C8_EmailPattern ==
    verdict # None =>
        /\ WellFormedEmail(addr) => verdict.valid
        /\ MalformedEmail(addr) => ~verdict.valid

----------------------------------------------------------------------------
\* save_user calls interleaved at the granularity of store operations (SpecConc)

MaxCalls == 2

\* Every identity with matching passwords, and one candidate whose
\* confirmation differs.
ConcUsers ==
    [name : {"A"}, username : {"alice", "bob"}, email : {EmailA, EmailB},
     phone : {"123"}, pass1 : {Pw("p", MinPwdLen)},
     pass2 : {Pw("p", MinPwdLen)}, uid : Uids]
    \cup
    [name : {"A"}, username : {"alice"}, email : {EmailA},
     phone : {"123"}, pass1 : {Pw("p", MinPwdLen)},
     pass2 : {Pw("q", MaxPwdLen)}, uid : {"id1"}]

ConcFrame == UNCHANGED <<val, last, registered, addr, verdict>>

\* RegisterVal(user).save_user() is entered.
ConcCall(p, user) ==
    /\ procs[p].pc = "idle"
    /\ calls < MaxCalls
    /\ calls' = calls + 1
    /\ procs' = [procs EXCEPT ![p] = [IdleProc EXCEPT !.pc = "v1", !.user = user]]
    /\ UNCHANGED <<store, seen>>
    /\ ConcFrame

\* The next fetch_user of is_user_exists, in the first validate (pc "v1") or in
\* the second (pc "v2"), with what follows it up to the next store operation.
ConcFetch(p) ==
    /\ procs[p].pc \in {"v1", "v2"}
    /\ LET me == procs[p]
           k == Len(me.hits) + 1
           filter == Lookups(me.user)[k]
           hits == Append(me.hits, fetch_user(store, filter[1], filter[2]))
           lens == Append(me.lens, Len(store))
           errors == validate(me.user, hits)
       IN
       procs' = [procs EXCEPT ![p] =
           IF k < 3
           THEN [me EXCEPT !.hits = hits, !.lens = lens]
           ELSE IF me.pc = "v1"
           THEN [me EXCEPT !.hits = <<>>, !.lens = lens, !.first = errors,
                           !.pc = IF validate_reg(errors).status THEN "add" ELSE "v2"]
           ELSE [me EXCEPT !.hits = <<>>, !.lens = lens, !.pc = "done",
                           !.ret = [kind |-> "return", status |-> FALSE,
                                    msg |-> errors]]]
    /\ UNCHANGED <<store, seen, calls>>
    /\ ConcFrame

\* hash_pwd, then add_user, then the return of status True.
ConcAdd(p, salt) ==
    /\ procs[p].pc = "add"
    /\ LET me == procs[p] IN
       /\ store' = add_user(store, user_data(me.user, hash_pwd(me.user.pass1, salt)))
       /\ seen' = Append(seen, SubSeq(me.lens, 1, 3))
       /\ procs' = [procs EXCEPT ![p] =
              [me EXCEPT !.pc = "done",
                         !.ret = [kind |-> "return", status |-> TRUE,
                                  msg |-> "User registered successfully"]]]
    /\ UNCHANGED calls
    /\ ConcFrame

\* The store operation the caller is about to make raises.
ConcFail(p) ==
    /\ procs[p].pc \in {"v1", "v2", "add"}
    /\ procs' = [procs EXCEPT ![p] =
           [@ EXCEPT !.pc = "done", !.hits = <<>>,
                     !.ret = [kind |-> "raise",
                              exc |-> save_user_except("StoreError")]]]
    /\ UNCHANGED <<store, seen, calls>>
    /\ ConcFrame

\* The request ends.
ConcRespond(p) ==
    /\ procs[p].pc = "done"
    /\ procs' = [procs EXCEPT ![p] = IdleProc]
    /\ UNCHANGED <<store, seen, calls>>
    /\ ConcFrame

NextConc ==
    \/ \E p \in Procs, user \in ConcUsers : ConcCall(p, user)
    \/ \E p \in Procs : ConcFetch(p)
    \/ \E p \in Procs, salt \in Salts : ConcAdd(p, salt)
    \/ \E p \in Procs : ConcFail(p)
    \/ \E p \in Procs : ConcRespond(p)

SpecConc == Init /\ [][NextConc]_vars

\* C9: under interleaving the store never holds two records with the same
\* username, email or UUID.
C9_InterleavedUnique ==
    \A i, j \in 1..Len(store) :
      (i # j) =>
        ~ \/ store[i].username = store[j].username
          \/ store[i].email = store[j].email
          \/ store[i].UUID = store[j].UUID

\* C9 as amended: two records share a username, email or UUID only when the
\* later one's call issued its lookup of that field before the earlier one was
\* inserted.
C9_DuplicatesOnlyFromOverlap ==
    \A i, j \in 1..Len(store) :
      i < j =>
        /\ store[i].username = store[j].username => seen[j][1] < i
        /\ store[i].email = store[j].email => seen[j][2] < i
        /\ store[i].UUID = store[j].UUID => seen[j][3] < i

\* Two calls raced: both returned status True and their records share a username.
C9_Witness ==
    /\ Len(store) = 2
    /\ store[1].username = store[2].username
    /\ \A p \in Procs : procs[p].pc = "done" /\ procs[p].ret.kind = "return"
                          /\ procs[p].ret.status = TRUE

\* C10: every result save_user returns with status False has a non-empty msg;
\* each check that failed in the first validate fails in the second; and when no
\* record was inserted between the two, msg is the first validate's list.
C10_FailureHasMessages ==
    \A p \in Procs :
      (procs[p].pc = "done" /\ procs[p].ret.kind = "return"
         /\ procs[p].ret.status = FALSE) =>
        /\ procs[p].ret.msg # <<>>
        /\ Range(procs[p].first) \subseteq Range(procs[p].ret.msg)
        /\ procs[p].lens[1] = procs[p].lens[6] => procs[p].ret.msg = procs[p].first

\* Another call inserted between the two validates: msg has grown.
C10_Witness ==
    \E p \in Procs :
      /\ procs[p].pc = "done"
      /\ procs[p].ret.kind = "return"
      /\ procs[p].ret.status = FALSE
      /\ procs[p].first = <<"Passwords do not match">>
      /\ procs[p].ret.msg = <<"Passwords do not match", "User already exists">>

====
